---- MODULE Spec2Model ----
(***************************************************************************)
(* A state-machine model of src/render.rs: RenderState::new,               *)
(* RenderState::resize and RenderState::render, together with the part of  *)
(* the graphics queue that the render call drives (the staging copy and    *)
(* the draw that reads the persistent vertex buffer).                      *)
(*                                                                         *)
(* Every operation is a chain of steps in source order; pc is the position *)
(* of the single render-owning thread.  resize and render take &mut self,  *)
(* so a new operation starts only from pc = "idle".                        *)
(***************************************************************************)
EXTENDS Integers, Sequences, FiniteSets, TLC

\* ---------------------------------------------------------------- bounds
\* Capacity stands for the 1024 bytes of the persistent vertex buffer, the
\* staging buffer, the copy and the bound range (render.rs 124, 150, 168,
\* 195), scaled down so that buffer contents can be enumerated byte by byte.
Capacity == 3
\* longest state.verticies that is tried; long enough to exceed Capacity
MaxVerts == 2
\* window widths and heights are 0 .. MaxDim
MaxDim == 1
\* render calls per run
MaxFrames == 2
\* resize calls per run
MaxResizes == 2
\* render and resize calls per run, together
MaxCalls == 3

\* ------------------------------------------------------ program constants
DrawVertexCount == 6
DrawInstanceCount == 1

\* The code moves bytes and never inspects them, so two byte values are
\* enough to tell any two buffer contents apart.
Byte == {0, 1}
Dim == 0 .. MaxDim
PhysicalSize == [width : Dim, height : Dim]

RECURSIVE SeqsOfLen(_, _)
SeqsOfLen(S, n) ==
    IF n = 0 THEN {<<>>}
    ELSE {Append(s, x) : s \in SeqsOfLen(S, n - 1), x \in S}

\* the uninitialised contents a freshly mapped buffer of `size` bytes can have
FreshBufferContents(size) == SeqsOfLen(Byte, size)

\* crate::gpu_primitives::Vertex: a plain-old-data record, position then
\* colour, here one byte each
Vertex == [position : Byte, color : Byte]

\* every state.verticies that is tried
VertexStreams == UNION {SeqsOfLen(Vertex, n) : n \in 0 .. MaxVerts}

\* bytemuck::cast_slice(&state.verticies): the records' bytes, in order
RECURSIVE cast_slice(_)
cast_slice(vs) ==
    IF vs = <<>> THEN <<>>
    ELSE <<Head(vs).position, Head(vs).color>> \o cast_slice(Tail(vs))

\* &[0; 1024]
Zeroes(size) == [i \in 1 .. size |-> 0]

\* ------------------------------------------------------------- the state
VARIABLES
    pc,                   \* position of the render-owning thread
    window,               \* the window: [size, adapter_available, shaders_ok]
    \* struct RenderState
    surface, adapter, device, queue, sc_desc, swap_chain,
    render_pipeline, vertex_buffer,
    \* locals of render
    verticies, staging_buffer, stage_upload_encoder, encoder,
    current_texture_view, render_pass,
    \* the device's side
    live_chains,          \* ids of the swap chains that exist
    vb_frame,             \* the frame whose copy last wrote vertex_buffer
    presented,            \* how many images were handed to the display
    \* history of the run
    staging_init,         \* what the mapped staging buffer held past the written prefix
    draw_observed,        \* what the last executed draw read: [data, frame, draws]
    entry,                \* RenderState as the operation in hand found it
                          \* (and, for resize, how the one before ended)
    last_op,              \* how the last operation ended
    init_error,           \* the error new returned
    created,              \* how many of each resource were ever created
    calls                 \* how many operations were started / ended

RenderStateVars ==
    <<surface, adapter, device, queue, sc_desc, swap_chain,
      render_pipeline, vertex_buffer>>

FrameVars ==
    <<verticies, staging_buffer, stage_upload_encoder, encoder,
      current_texture_view, render_pass, staging_init>>

vars ==
    <<pc, window, surface, adapter, device, queue, sc_desc, swap_chain,
      render_pipeline, vertex_buffer, verticies, staging_buffer,
      stage_upload_encoder, encoder, current_texture_view, render_pass,
      live_chains, vb_frame, presented, staging_init, draw_observed, entry,
      last_op, init_error, created, calls>>

\* ------------------------------------------------------- absent values
NoDesc ==
    [usage |-> "", format |-> "", width |-> 0, height |-> 0, present_mode |-> ""]
NoChain == [id |-> 0, desc |-> NoDesc]
NoPipeline ==
    [id |-> 0, format |-> "", front_face |-> "", cull_mode |-> "",
     topology |-> "", blend |-> "", vertex_layout |-> ""]
NoEncoder == [label |-> "", state |-> "none", cmds |-> <<>>]
NoView == [chain |-> 0, width |-> 0, height |-> 0]
NoObserved == [data |-> <<>>, frame |-> 0, draws |-> 0, clears |-> 0]
NoBuffer == <<>>

Snapshot ==
    [surface |-> surface, adapter |-> adapter, device |-> device,
     queue |-> queue, sc_desc |-> sc_desc, swap_chain |-> swap_chain,
     render_pipeline |-> render_pipeline, vertex_buffer |-> vertex_buffer,
     live_chains |-> live_chains, presented |-> presented,
     window_size |-> window.size, last_op |-> last_op]

NoSnapshot ==
    [surface |-> FALSE, adapter |-> FALSE, device |-> FALSE,
     queue |-> <<>>, sc_desc |-> NoDesc, swap_chain |-> NoChain,
     render_pipeline |-> NoPipeline, vertex_buffer |-> NoBuffer,
     live_chains |-> {}, presented |-> 0,
     window_size |-> [width |-> 0, height |-> 0], last_op |-> "none"]

NoneCreated ==
    [surface |-> 0, adapter |-> 0, device |-> 0, swap_chain |-> 0,
     pipeline |-> 0, vertex_buffer |-> 0, staging_buffer |-> 0,
     encoder |-> 0]

NoCalls ==
    [render |-> 0, render_ok |-> 0, render_err |-> 0, resize |-> 0,
     acquired |-> 0, passes_submitted |-> 0, copies_recorded |-> 0]

\* ------------------------------------------------------------------ Init
\* Before RenderState::new: nothing exists; the window has some inner size,
\* the platform has or lacks a compatible adapter, and the two shader blobs
\* built into the binary are or are not well-formed SPIR-V.
Init ==
    /\ pc = "new"
    /\ window \in [size : PhysicalSize, adapter_available : BOOLEAN,
                   shaders_ok : BOOLEAN]
    /\ surface = FALSE
    /\ adapter = FALSE
    /\ device = FALSE
    /\ queue = <<>>
    /\ sc_desc = NoDesc
    /\ swap_chain = NoChain
    /\ render_pipeline = NoPipeline
    /\ vertex_buffer = NoBuffer
    /\ verticies = <<>>
    /\ staging_buffer = NoBuffer
    /\ stage_upload_encoder = NoEncoder
    /\ encoder = NoEncoder
    /\ current_texture_view = NoView
    /\ render_pass = "none"
    /\ live_chains = {}
    /\ vb_frame = 0
    /\ presented = 0
    /\ staging_init = NoBuffer
    /\ draw_observed = NoObserved
    /\ entry = NoSnapshot
    /\ last_op = "none"
    /\ init_error = ""
    /\ created = NoneCreated
    /\ calls = NoCalls


\* ------------------------------------------------------ RenderState::new
\* Device::create_swap_chain(&surface, &desc): a chain conforming to desc
create_swap_chain(desc, id) == [id |-> id, desc |-> desc]

\* A chain of zero width or height is outside the backend's contract (the
\* caller must guard it): the backend either builds it or panics.
ZeroSized(desc) == desc.width = 0 \/ desc.height = 0

\* returning Err from new drops every local made so far
DropNewLocals ==
    /\ surface' = FALSE
    /\ adapter' = FALSE
    /\ device' = FALSE
    /\ queue' = <<>>
    /\ sc_desc' = NoDesc
    /\ swap_chain' = NoChain
    /\ render_pipeline' = NoPipeline
    /\ vertex_buffer' = NoBuffer
    /\ live_chains' = {}

\* lines 43-52: the surface, then the adapter request; None becomes
\* Err("No adapter available")
NewRequestAdapter ==
    /\ pc = "new"
    /\ created' = [created EXCEPT !.surface = @ + 1,
                                  !.adapter = @ + (IF window.adapter_available THEN 1 ELSE 0)]
    /\ IF window.adapter_available
       THEN /\ surface' = TRUE
            /\ adapter' = TRUE
            /\ pc' = "new_device"
            /\ UNCHANGED <<device, queue, sc_desc, swap_chain, render_pipeline,
                           vertex_buffer, live_chains, init_error, last_op>>
       ELSE /\ DropNewLocals
            /\ init_error' = "No adapter available"
            /\ last_op' = "new_err"
            /\ pc' = "init_failed"
    /\ UNCHANGED <<window, FrameVars, vb_frame, presented, draw_observed, entry, calls>>

\* lines 54-59: adapter.request_device(..).await, which has no error path
NewRequestDevice ==
    /\ pc = "new_device"
    /\ device' = TRUE
    /\ queue' = <<>>
    /\ created' = [created EXCEPT !.device = @ + 1]
    /\ pc' = "new_swap_chain"
    /\ UNCHANGED <<window, surface, adapter, sc_desc, swap_chain, render_pipeline,
                   vertex_buffer, FrameVars, live_chains, vb_frame, presented,
                   draw_observed, entry, last_op, init_error, calls>>

\* lines 61-67
NewDescriptor ==
    [usage |-> "OUTPUT_ATTACHMENT", format |-> "Bgra8UnormSrgb",
     width |-> window.size.width, height |-> window.size.height,
     present_mode |-> "Fifo"]

\* lines 61-69: the descriptor from the window's inner size, then the chain
NewCreateSwapChain ==
    /\ pc = "new_swap_chain"
    /\ sc_desc' = NewDescriptor
    /\ \/ /\ swap_chain' = create_swap_chain(sc_desc', created.swap_chain + 1)
          /\ live_chains' = {swap_chain'.id}
          /\ created' = [created EXCEPT !.swap_chain = @ + 1]
          /\ pc' = "new_shaders"
          /\ UNCHANGED last_op
       \/ /\ ZeroSized(sc_desc')
          /\ pc' = "panicked"
          /\ last_op' = "new_panic"
          /\ UNCHANGED <<swap_chain, live_chains, created>>
    /\ UNCHANGED <<window, surface, adapter, device, queue, render_pipeline,
                   vertex_buffer, FrameVars, vb_frame, presented, draw_observed,
                   entry, init_error, calls>>

\* mutant: a malformed blob is passed on unchecked
NewReadSpirv_Unchecked ==
    /\ pc = "new_shaders"
    /\ pc' = "new_pipeline"
    /\ UNCHANGED <<window, RenderStateVars, FrameVars, live_chains, vb_frame,
                   presented, draw_observed, entry, last_op, init_error, created,
                   calls>>

\* lines 71-72: wgpu::read_spirv of both blobs, each with `?`
NewReadSpirv ==
    /\ pc = "new_shaders"
    /\ IF window.shaders_ok
       THEN /\ pc' = "new_pipeline"
            /\ UNCHANGED <<RenderStateVars, live_chains, init_error, last_op>>
       ELSE /\ DropNewLocals
            /\ init_error' = "read_spirv"
            /\ last_op' = "new_err"
            /\ pc' = "init_failed"
    /\ UNCHANGED <<window, FrameVars, vb_frame, presented, draw_observed, entry,
                   created, calls>>

\* lines 74-121: shader modules, layout and the pipeline, whose colour
\* target format is sc_desc.format
NewCreatePipeline ==
    /\ pc = "new_pipeline"
    /\ render_pipeline' =
           [id |-> created.pipeline + 1, format |-> sc_desc.format,
            front_face |-> "Ccw", cull_mode |-> "Back",
            topology |-> "TriangleList", blend |-> "REPLACE",
            vertex_layout |-> "Vertex::desc"]
    /\ created' = [created EXCEPT !.pipeline = @ + 1]
    /\ pc' = "new_vertex_buffer"
    /\ UNCHANGED <<window, surface, adapter, device, queue, sc_desc, swap_chain,
                   vertex_buffer, FrameVars, live_chains, vb_frame, presented,
                   draw_observed, entry, last_op, init_error, calls>>

\* lines 123-131: the zero-filled vertex buffer, then Ok(Self { .. })
NewCreateVertexBuffer ==
    /\ pc = "new_vertex_buffer"
    /\ vertex_buffer' = Zeroes(Capacity)
    /\ created' = [created EXCEPT !.vertex_buffer = @ + 1]
    /\ last_op' = "new"
    /\ pc' = "idle"
    /\ UNCHANGED <<window, surface, adapter, device, queue, sc_desc, swap_chain,
                   render_pipeline, FrameVars, live_chains, vb_frame, presented,
                   draw_observed, entry, init_error, calls>>

New ==
    \/ NewRequestAdapter
    \/ NewRequestDevice
    \/ NewCreateSwapChain
    \/ NewReadSpirv
    \/ NewCreatePipeline
    \/ NewCreateVertexBuffer


\* --------------------------------------------------- RenderState::resize
\* mutant: width and height are assigned crosswise
ResizeUpdateDesc_Crossed ==
    /\ pc = "idle"
    /\ calls.resize < MaxResizes
    /\ calls.render + calls.resize < MaxCalls
    /\ \E into_size \in PhysicalSize :
          /\ window' = [window EXCEPT !.size = into_size]
          /\ sc_desc' = [sc_desc EXCEPT !.width = into_size.height,
                                        !.height = into_size.width]
    /\ entry' = Snapshot
    /\ last_op' = "running"
    /\ calls' = [calls EXCEPT !.resize = @ + 1]
    /\ pc' = "resize_create"
    /\ UNCHANGED <<surface, adapter, device, queue, swap_chain, render_pipeline,
                   vertex_buffer, FrameVars, live_chains, vb_frame, presented,
                   draw_observed, init_error, created>>

\* mutant: the descriptor is built anew, with another pixel format
ResizeUpdateDesc_Rebuilds ==
    /\ pc = "idle"
    /\ calls.resize < MaxResizes
    /\ calls.render + calls.resize < MaxCalls
    /\ \E into_size \in PhysicalSize :
          /\ window' = [window EXCEPT !.size = into_size]
          /\ sc_desc' = [usage |-> "OUTPUT_ATTACHMENT", format |-> "Bgra8Unorm",
                         width |-> into_size.width, height |-> into_size.height,
                         present_mode |-> "Fifo"]
    /\ entry' = Snapshot
    /\ last_op' = "running"
    /\ calls' = [calls EXCEPT !.resize = @ + 1]
    /\ pc' = "resize_create"
    /\ UNCHANGED <<surface, adapter, device, queue, swap_chain, render_pipeline,
                   vertex_buffer, FrameVars, live_chains, vb_frame, presented,
                   draw_observed, init_error, created>>

\* lines 134-136: width and height of the descriptor become the new size
ResizeUpdateDesc ==
    /\ pc = "idle"
    /\ calls.resize < MaxResizes
    /\ calls.render + calls.resize < MaxCalls
    /\ \E into_size \in PhysicalSize :
          /\ window' = [window EXCEPT !.size = into_size]
          /\ sc_desc' = [sc_desc EXCEPT !.width = into_size.width,
                                        !.height = into_size.height]
    /\ entry' = Snapshot
    /\ last_op' = "running"
    /\ calls' = [calls EXCEPT !.resize = @ + 1]
    /\ pc' = "resize_create"
    /\ UNCHANGED <<surface, adapter, device, queue, swap_chain, render_pipeline,
                   vertex_buffer, FrameVars, live_chains, vb_frame, presented,
                   draw_observed, init_error, created>>

\* mutant: the chain is left as it was
ResizeCreateSwapChain_KeepsOld ==
    /\ pc = "resize_create"
    /\ last_op' = "resize"
    /\ pc' = "idle"
    /\ UNCHANGED <<window, RenderStateVars, FrameVars, live_chains, vb_frame,
                   presented, draw_observed, entry, init_error, calls, created>>

\* mutant: the replaced chain is kept alive next to the new one
ResizeCreateSwapChain_Leaks ==
    /\ pc = "resize_create"
    /\ swap_chain' = create_swap_chain(sc_desc, created.swap_chain + 1)
    /\ live_chains' = live_chains \cup {swap_chain'.id}
    /\ created' = [created EXCEPT !.swap_chain = @ + 1]
    /\ last_op' = "resize"
    /\ pc' = "idle"
    /\ UNCHANGED <<window, surface, adapter, device, queue, sc_desc,
                   render_pipeline, vertex_buffer, FrameVars, vb_frame, presented,
                   draw_observed, entry, init_error, calls>>

\* mutant: a resize to the size the chain already has is skipped
ResizeCreateSwapChain_Debounced ==
    /\ pc = "resize_create"
    /\ \/ /\ sc_desc # swap_chain.desc
          /\ swap_chain' = create_swap_chain(sc_desc, created.swap_chain + 1)
          /\ live_chains' = {swap_chain'.id}
          /\ created' = [created EXCEPT !.swap_chain = @ + 1]
          /\ last_op' = "resize"
          /\ pc' = "idle"
       \/ /\ sc_desc = swap_chain.desc
          /\ last_op' = "resize"
          /\ pc' = "idle"
          /\ UNCHANGED <<swap_chain, live_chains, created>>
       \/ /\ ZeroSized(sc_desc)
          /\ pc' = "panicked"
          /\ last_op' = "resize_panic"
          /\ UNCHANGED <<swap_chain, live_chains, created>>
    /\ UNCHANGED <<window, surface, adapter, device, queue, sc_desc,
                   render_pipeline, vertex_buffer, FrameVars, vb_frame, presented,
                   draw_observed, entry, init_error, calls>>

\* line 138: the new chain is built from the descriptor and assigned to
\* self.swap_chain; the chain it replaces is gone
ResizeCreateSwapChain ==
    /\ pc = "resize_create"
    /\ \/ /\ swap_chain' = create_swap_chain(sc_desc, created.swap_chain + 1)
          /\ live_chains' = {swap_chain'.id}
          /\ created' = [created EXCEPT !.swap_chain = @ + 1]
          /\ last_op' = "resize"
          /\ pc' = "idle"
       \/ /\ ZeroSized(sc_desc)
          /\ pc' = "panicked"
          /\ last_op' = "resize_panic"
          /\ UNCHANGED <<swap_chain, live_chains, created>>
    /\ UNCHANGED <<window, surface, adapter, device, queue, sc_desc,
                   render_pipeline, vertex_buffer, FrameVars, vb_frame, presented,
                   draw_observed, entry, init_error, calls>>

Resize ==
    \/ ResizeUpdateDesc
    \/ ResizeCreateSwapChain

\* --------------------------------------------------- RenderState::render
\* recorded commands: an operation and its integer arguments
Cmd(op, args) == [op |-> op, args |-> args]

\* data[..src.len()].copy_from_slice(src), for src.len() <= data.len()
copy_from_slice(data, src) ==
    [i \in 1 .. Len(data) |-> IF i <= Len(src) THEN src[i] ELSE data[i]]

\* line 154 indexes data[..len]: past the mapped 1024 bytes it panics
StageFits(content) == Len(content) <= Capacity

\* what leaving render drops: every local of the call
DropFrameLocals ==
    /\ verticies' = <<>>
    /\ staging_buffer' = NoBuffer
    /\ stage_upload_encoder' = NoEncoder
    /\ encoder' = NoEncoder
    /\ current_texture_view' = NoView
    /\ render_pass' = "none"
    /\ staging_init' = NoBuffer

\* The fresh mappings of `size` bytes that a prefix write of n bytes tells
\* apart: the first n bytes are overwritten before anything reads them, so
\* only the bytes past the prefix are enumerated.
FreshMappings(size, n) ==
    {Zeroes(n) \o tail : tail \in FreshBufferContents(size - n)}

\* the bytes of a fresh mapping that a prefix write of n bytes leaves in place
UnwrittenTail(fresh, n) == SubSeq(fresh, n + 1, Len(fresh))

\* lines 143-155: the byte view of state.verticies, a fresh mapped staging
\* buffer of 1024 bytes whose contents are whatever the allocation holds,
\* the prefix write (a panic when the slice index is out of range, which
\* unwinds and drops the mapping; the caller's stream stays), finish()
RenderStage ==
    /\ pc = "idle"
    /\ calls.render < MaxFrames
    /\ calls.render + calls.resize < MaxCalls
    /\ \E vs \in VertexStreams :
          LET vertex_buffer_content == cast_slice(vs) IN
          IF StageFits(vertex_buffer_content)
          THEN \E fresh \in FreshMappings(Capacity, Len(vertex_buffer_content)) :
                  /\ verticies' = vs
                  /\ staging_init' = UnwrittenTail(fresh, Len(vertex_buffer_content))
                  /\ staging_buffer' = copy_from_slice(fresh, vertex_buffer_content)
                  /\ pc' = "upload"
                  /\ last_op' = "running"
          ELSE /\ verticies' = vs
               /\ staging_init' = NoBuffer
               /\ staging_buffer' = NoBuffer
               /\ pc' = "panicked"
               /\ last_op' = "render_panic"
    /\ entry' = [Snapshot EXCEPT !.last_op = "none"]
    /\ created' = [created EXCEPT !.staging_buffer = @ + 1]
    /\ calls' = [calls EXCEPT !.render = @ + 1]
    /\ UNCHANGED <<window, RenderStateVars, stage_upload_encoder, encoder,
                   current_texture_view, render_pass, live_chains, vb_frame,
                   presented, draw_observed, init_error>>

\* the number of commands named op among cmds
RECURSIVE CountOp(_, _)
CountOp(cmds, op) ==
    IF cmds = <<>> THEN 0
    ELSE (IF Head(cmds).op = op THEN 1 ELSE 0) + CountOp(Tail(cmds), op)

\* mutant: the copy covers only the bytes that were written
UploadCommands_PrefixOnly ==
    <<Cmd("copy_buffer_to_buffer", <<0, 0, Len(cast_slice(verticies))>>)>>

\* lines 163-169: copy_buffer_to_buffer(&staging_buffer, 0, &vertex_buffer, 0, 1024)
UploadCommands == <<Cmd("copy_buffer_to_buffer", <<0, 0, Capacity>>)>>

\* lines 157-175: the upload encoder with its copy, then the render encoder
RenderEnqueueUpload ==
    /\ pc = "upload"
    /\ stage_upload_encoder' =
           [label |-> "Staging upload encoder", state |-> "recording",
            cmds |-> UploadCommands]
    /\ encoder' = [label |-> "Render encoder", state |-> "recording", cmds |-> <<>>]
    /\ created' = [created EXCEPT !.encoder = @ + 2]
    /\ calls' = [calls EXCEPT !.copies_recorded =
                    @ + CountOp(stage_upload_encoder'.cmds, "copy_buffer_to_buffer")]
    /\ pc' = "acquire"
    /\ UNCHANGED <<window, RenderStateVars, verticies, staging_buffer,
                   current_texture_view, render_pass, staging_init, live_chains,
                   vb_frame, presented, draw_observed, entry, last_op, init_error>>

\* line 177, Ok: the next image of self.swap_chain
RenderAcquireImage ==
    /\ pc = "acquire"
    /\ current_texture_view' =
           [chain |-> swap_chain.id, width |-> swap_chain.desc.width,
            height |-> swap_chain.desc.height]
    /\ calls' = [calls EXCEPT !.acquired = @ + 1]
    /\ pc' = "record_pass"
    /\ UNCHANGED <<window, RenderStateVars, verticies, staging_buffer,
                   stage_upload_encoder, encoder, render_pass, staging_init,
                   live_chains, vb_frame, presented, draw_observed, entry, last_op,
                   init_error, created>>

\* mutant: the timeout path submits the recorded upload before returning
RenderAcquireTimeout_SubmitsUpload ==
    /\ pc = "acquire"
    /\ queue' = Append(queue, [frame |-> calls.render, kind |-> "upload"])
    /\ vertex_buffer' = staging_buffer
    /\ vb_frame' = calls.render
    /\ DropFrameLocals
    /\ last_op' = "render_err"
    /\ calls' = [calls EXCEPT !.render_err = @ + 1]
    /\ pc' = "idle"
    /\ UNCHANGED <<window, surface, adapter, device, sc_desc, swap_chain,
                   render_pipeline, live_chains, presented, draw_observed, entry,
                   init_error, created>>

\* mutant: the timeout is unwrapped instead of returned
RenderAcquireTimeout_Unwraps ==
    /\ pc = "acquire"
    /\ DropFrameLocals
    /\ last_op' = "render_panic"
    /\ pc' = "panicked"
    /\ UNCHANGED <<window, RenderStateVars, live_chains, vb_frame, presented,
                   draw_observed, entry, init_error, created, calls>>

\* line 177, Err: map_err(|_| into_ioerror("Timeout"))? returns at once
RenderAcquireTimeout ==
    /\ pc = "acquire"
    /\ DropFrameLocals
    /\ last_op' = "render_err"
    /\ calls' = [calls EXCEPT !.render_err = @ + 1]
    /\ pc' = "idle"
    /\ UNCHANGED <<window, RenderStateVars, live_chains, vb_frame, presented,
                   draw_observed, entry, init_error, created>>

\* mutant: the draw covers as many vertices as were supplied
PassCommands_DrawSupplied ==
    <<Cmd("begin_render_pass", <<current_texture_view.chain, 0, 0, 1, 1>>),
      Cmd("set_pipeline", <<render_pipeline.id>>),
      Cmd("set_vertex_buffer", <<0, 0, Capacity>>),
      Cmd("draw", <<0, Len(verticies), 0, DrawInstanceCount>>)>>

\* lines 179-196: begin_render_pass (Clear to Color::BLUE = 0,0,1,1),
\* set_pipeline, set_vertex_buffer(0, &vertex_buffer, 0, 1024), draw(0..6, 0..1)
PassCommands ==
    <<Cmd("begin_render_pass", <<current_texture_view.chain, 0, 0, 1, 1>>),
      Cmd("set_pipeline", <<render_pipeline.id>>),
      Cmd("set_vertex_buffer", <<0, 0, Capacity>>),
      Cmd("draw", <<0, DrawVertexCount, 0, DrawInstanceCount>>)>>

RenderRecordPass ==
    /\ pc = "record_pass"
    /\ render_pass' = "open"
    /\ encoder' = [encoder EXCEPT !.cmds = @ \o PassCommands]
    /\ pc' = "drop_pass"
    /\ UNCHANGED <<window, RenderStateVars, verticies, staging_buffer,
                   stage_upload_encoder, current_texture_view, staging_init,
                   live_chains, vb_frame, presented, draw_observed, entry, last_op,
                   init_error, created, calls>>

\* mutant: the pass is still borrowed from the encoder when finish is reached
RenderDropPass_Skipped ==
    /\ pc = "drop_pass"
    /\ pc' = "finish"
    /\ UNCHANGED <<window, RenderStateVars, FrameVars, live_chains, vb_frame,
                   presented, draw_observed, entry, last_op, init_error, created,
                   calls>>

\* line 198: std::mem::drop(render_pass) ends the pass
RenderDropPass ==
    /\ pc = "drop_pass"
    /\ render_pass' = "ended"
    /\ encoder' = [encoder EXCEPT !.cmds = Append(@, Cmd("end_render_pass", <<>>))]
    /\ pc' = "finish"
    /\ UNCHANGED <<window, RenderStateVars, verticies, staging_buffer,
                   stage_upload_encoder, current_texture_view, staging_init,
                   live_chains, vb_frame, presented, draw_observed, entry, last_op,
                   init_error, created, calls>>

\* line 200, the arguments: stage_upload_encoder.finish(), encoder.finish()
RenderFinishEncoders ==
    /\ pc = "finish"
    /\ stage_upload_encoder' = [stage_upload_encoder EXCEPT !.state = "finished"]
    /\ encoder' = [encoder EXCEPT !.state = "finished"]
    /\ pc' = "submit"
    /\ UNCHANGED <<window, RenderStateVars, verticies, staging_buffer,
                   current_texture_view, render_pass, staging_init, live_chains,
                   vb_frame, presented, draw_observed, entry, last_op, init_error,
                   created, calls>>


\* ------------------------------------------------ the queue's execution
\* The queue runs the command buffers of a submission in the order given,
\* and each buffer's commands in recorded order.  g is the device's side:
\* the vertex buffer, the frame whose copy last wrote it, the range bound at
\* slot 0 and what the last draw read.

\* mutant: the copy stops one byte short
CopyBytes_StopsShort(dst, src, src_off, dst_off, size) ==
    [i \in 1 .. Len(dst) |->
        IF dst_off < i /\ i < dst_off + size
        THEN src[i - dst_off + src_off]
        ELSE dst[i]]

\* copy_buffer_to_buffer(src, src_off, dst, dst_off, size)
CopyBytes(dst, src, src_off, dst_off, size) ==
    [i \in 1 .. Len(dst) |->
        IF dst_off < i /\ i <= dst_off + size
        THEN src[i - dst_off + src_off]
        ELSE dst[i]]

\* the bytes of buf in the range bound by set_vertex_buffer(slot, buf, off, size)
BoundBytes(buf, off, size) == SubSeq(buf, off + 1, off + size)

ExecCmd(g, c, frame, staging) ==
    IF c.op = "copy_buffer_to_buffer"
    THEN [g EXCEPT !.vb = CopyBytes(g.vb, staging, c.args[1], c.args[2], c.args[3]),
                   !.vb_frame = frame]
    ELSE IF c.op = "begin_render_pass"
    THEN [g EXCEPT !.observed.clears = @ + 1]
    ELSE IF c.op = "set_vertex_buffer"
    THEN [g EXCEPT !.bound = <<c.args[2], c.args[3]>>]
    ELSE IF c.op = "draw"
    THEN [g EXCEPT !.observed.data = BoundBytes(g.vb, g.bound[1], g.bound[2]),
                   !.observed.frame = g.vb_frame,
                   !.observed.draws = @ + 1]
    ELSE g

RECURSIVE ExecCmds(_, _, _, _)
ExecCmds(g, cmds, frame, staging) ==
    IF cmds = <<>> THEN g
    ELSE ExecCmds(ExecCmd(g, Head(cmds), frame, staging), Tail(cmds), frame, staging)

RECURSIVE ExecBuffers(_, _, _)
ExecBuffers(g, bufs, staging) ==
    IF bufs = <<>> THEN g
    ELSE ExecBuffers(ExecCmds(g, Head(bufs).cmds, Head(bufs).frame, staging),
                     Tail(bufs), staging)

\* mutant: the render command buffer is submitted ahead of the upload
SubmittedBuffers_RenderFirst ==
    <<[frame |-> calls.render, kind |-> "render", cmds |-> encoder.cmds],
      [frame |-> calls.render, kind |-> "upload", cmds |-> stage_upload_encoder.cmds]>>

\* line 200: &[stage_upload_encoder.finish(), encoder.finish()]
SubmittedBuffers ==
    <<[frame |-> calls.render, kind |-> "upload", cmds |-> stage_upload_encoder.cmds],
      [frame |-> calls.render, kind |-> "render", cmds |-> encoder.cmds]>>

\* mutant: the submission is put ahead of what the queue already holds
RenderQueueSubmit_Prepends ==
    /\ pc = "submit"
    /\ LET bufs == SubmittedBuffers
           g0 == [vb |-> vertex_buffer, vb_frame |-> vb_frame, bound |-> <<0, 0>>,
                  observed |-> [data |-> <<>>, frame |-> 0, draws |-> 0, clears |-> 0]]
           g1 == ExecBuffers(g0, bufs, staging_buffer)
       IN /\ queue' = [i \in 1 .. Len(bufs) |->
                          [frame |-> bufs[i].frame, kind |-> bufs[i].kind]] \o queue
          /\ vertex_buffer' = g1.vb
          /\ vb_frame' = g1.vb_frame
          /\ draw_observed' = g1.observed
          /\ calls' = [calls EXCEPT !.passes_submitted =
                          @ + CountOp(bufs[1].cmds \o bufs[2].cmds, "begin_render_pass")]
    /\ pc' = "submitted"
    /\ UNCHANGED <<window, surface, adapter, device, sc_desc, swap_chain,
                   render_pipeline, FrameVars, live_chains, presented, entry,
                   last_op, init_error, created>>

\* line 200: self.queue.submit(..)
RenderQueueSubmit ==
    /\ pc = "submit"
    /\ LET bufs == SubmittedBuffers
           g0 == [vb |-> vertex_buffer, vb_frame |-> vb_frame, bound |-> <<0, 0>>,
                  observed |-> [data |-> <<>>, frame |-> 0, draws |-> 0, clears |-> 0]]
           g1 == ExecBuffers(g0, bufs, staging_buffer)
       IN /\ queue' = queue \o [i \in 1 .. Len(bufs) |->
                                   [frame |-> bufs[i].frame, kind |-> bufs[i].kind]]
          /\ vertex_buffer' = g1.vb
          /\ vb_frame' = g1.vb_frame
          /\ draw_observed' = g1.observed
          /\ calls' = [calls EXCEPT !.passes_submitted =
                          @ + CountOp(bufs[1].cmds \o bufs[2].cmds, "begin_render_pass")]
    /\ pc' = "submitted"
    /\ UNCHANGED <<window, surface, adapter, device, sc_desc, swap_chain,
                   render_pipeline, FrameVars, live_chains, presented, entry,
                   last_op, init_error, created>>

\* mutant: the acquired output is forgotten instead of dropped
RenderReturnOk_NoPresent ==
    /\ pc = "submitted"
    /\ DropFrameLocals
    /\ last_op' = "render_ok"
    /\ calls' = [calls EXCEPT !.render_ok = @ + 1]
    /\ pc' = "idle"
    /\ UNCHANGED <<window, RenderStateVars, live_chains, vb_frame, presented,
                   draw_observed, entry, init_error, created>>

\* line 202 and the end of the scope: Ok(()); the locals are dropped, and
\* dropping the acquired swap-chain output hands its image to the display
RenderReturnOk ==
    /\ pc = "submitted"
    /\ presented' = presented + 1
    /\ DropFrameLocals
    /\ last_op' = "render_ok"
    /\ calls' = [calls EXCEPT !.render_ok = @ + 1]
    /\ pc' = "idle"
    /\ UNCHANGED <<window, RenderStateVars, live_chains, vb_frame, draw_observed,
                   entry, init_error, created>>

Render ==
    \/ RenderStage
    \/ RenderEnqueueUpload
    \/ RenderAcquireImage
    \/ RenderAcquireTimeout
    \/ RenderRecordPass
    \/ RenderDropPass
    \/ RenderFinishEncoders
    \/ RenderQueueSubmit
    \/ RenderReturnOk

\* ------------------------------------------------------ the specification
Next ==
    \/ New
    \/ Resize
    \/ Render

Spec == Init /\ [][Next]_vars

\* render is straight-line synchronous code: once a call is past staging,
\* its next statement runs, and get_next_texture comes back with an image
\* or with its timeout.  Nothing obliges the caller to start a call.
RenderContinues ==
    \/ RenderEnqueueUpload
    \/ RenderAcquireImage
    \/ RenderAcquireTimeout
    \/ RenderRecordPass
    \/ RenderDropPass
    \/ RenderFinishEncoders
    \/ RenderQueueSubmit
    \/ RenderReturnOk

FairSpec == Spec /\ WF_vars(RenderContinues)


\* ------------------------------------------------------------ the claims
NewPCs ==
    {"new", "new_device", "new_swap_chain", "new_shaders", "new_pipeline",
     "new_vertex_buffer"}

\* new has returned Ok(RenderState)
Constructed == pc \notin NewPCs \cup {"init_failed"} /\ last_op # "new_panic"

\* the serialized bytes of the current call's vertex stream
Content == cast_slice(verticies)

NonZero(size) == size.width # 0 /\ size.height # 0

\* the RenderState fields and the device's side that a frame must not disturb
Undisturbed ==
    /\ surface = entry.surface
    /\ adapter = entry.adapter
    /\ device = entry.device
    /\ queue = entry.queue
    /\ sc_desc = entry.sc_desc
    /\ swap_chain = entry.swap_chain
    /\ render_pipeline = entry.render_pipeline
    /\ vertex_buffer = entry.vertex_buffer
    /\ live_chains = entry.live_chains
    /\ presented = entry.presented

\* C1 as stated: once a frame's submission has run, the draw has read the
\* new stream's bytes on [0, len) and the vertex buffer's contents from
\* before the frame on [len, Capacity).
C1_StaleTail ==
    pc = "submitted" =>
        /\ Len(draw_observed.data) = Capacity
        /\ \A i \in 1 .. Capacity :
              draw_observed.data[i] =
                  IF i <= Len(Content) THEN Content[i] ELSE entry.vertex_buffer[i]

\* C1 as amended: once a frame's submission has run, the draw has read the
\* new stream's bytes on [0, len) and, on [len, Capacity), the bytes the
\* frame's fresh staging buffer held there when it was mapped.
C1_FreshTail ==
    pc = "submitted" =>
        /\ Len(draw_observed.data) = Capacity
        /\ Len(staging_init) = Capacity - Len(Content)
        /\ \A i \in 1 .. Capacity :
              draw_observed.data[i] =
                  IF i <= Len(Content) THEN Content[i]
                  ELSE staging_init[i - Len(Content)]

\* a second frame with a shorter, non-empty stream has been drawn, and the
\* fresh staging tail differs from what the vertex buffer held before
C1_Witness ==
    /\ pc = "submitted"
    /\ calls.render = 2
    /\ 0 < Len(Content) /\ Len(Content) < Capacity
    /\ calls.render_ok = 1
    /\ entry.vertex_buffer # Zeroes(Capacity)
    /\ \E i \in Len(Content) + 1 .. Capacity :
          staging_init[i - Len(Content)] # entry.vertex_buffer[i]

\* C2: in every submission the upload command buffer of a frame precedes
\* that frame's render command buffer, and the draw of frame n reads the
\* vertex buffer as written by frame n's own copy.
C2_UploadBeforeRender ==
    /\ \A i, j \in DOMAIN queue :
          (/\ queue[i].frame = queue[j].frame
           /\ queue[i].kind = "upload"
           /\ queue[j].kind = "render") => i < j
    /\ pc = "submitted" =>
          /\ draw_observed.frame = calls.render
          /\ draw_observed.data = staging_buffer
          /\ Len(queue) >= 2
          /\ queue[Len(queue) - 1] = [frame |-> calls.render, kind |-> "upload"]
          /\ queue[Len(queue)] = [frame |-> calls.render, kind |-> "render"]

\* the second successful frame has been submitted with staged bytes that
\* differ from what the vertex buffer held before its copy
C2_Witness ==
    /\ pc = "submitted"
    /\ Len(queue) = 4
    /\ staging_buffer # entry.vertex_buffer
    /\ draw_observed.data # entry.vertex_buffer

\* C3: a render call that ended in the acquisition timeout returned to its
\* caller (no panic), submitted nothing, presented nothing, and left the
\* pipeline, the vertex buffer, the device, the queue, the descriptor and
\* the swap chain as they were when the call began.
C3_TimeoutLeavesStateAlone ==
    last_op = "render_err" =>
        /\ pc = "idle"
        /\ Undisturbed
        /\ calls.acquired = calls.render_ok
        /\ calls.passes_submitted = calls.render_ok
        /\ Len(queue) = 2 * calls.render_ok
        /\ swap_chain.id \in live_chains

\* a frame timed out after an earlier frame had succeeded
C3_Witness ==
    /\ last_op = "render_err"
    /\ pc = "idle"
    /\ calls.render_ok = 1
    /\ vertex_buffer # Zeroes(Capacity)

\* C4 as stated: a render call whose stream is longer than the buffer comes
\* back to the caller with an error; it never panics.
C4_OverflowIsReturnedAsError ==
    Len(Content) > Capacity => pc # "panicked" /\ last_op # "render_panic"

\* C5: after a resize to a nonzero size, the image a frame acquires and
\* hands to the display comes from the live chain and has exactly the size
\* most recently given to resize.
C5_PresentsResizedImage ==
    (/\ pc \in {"record_pass", "drop_pass", "finish", "submit", "submitted"}
     /\ calls.resize > 0
     /\ NonZero(window.size)) =>
        /\ current_texture_view.width = window.size.width
        /\ current_texture_view.height = window.size.height
        /\ current_texture_view.chain = swap_chain.id
        /\ current_texture_view.chain \in live_chains

\* a frame is about to be presented after a resize to a nonzero size that
\* was followed by a timed-out frame
C5_Witness ==
    /\ pc = "submitted"
    /\ calls.resize > 0
    /\ NonZero(window.size)
    /\ calls.render_err = 1
    /\ swap_chain.id > 1
    /\ current_texture_view.chain = swap_chain.id

\* C6: the images handed to the display are as many as the render calls
\* that returned Ok, and each such call acquired one image and submitted
\* one render pass; a call in flight accounts for at most one more.
C6_OnePresentPerOk ==
    /\ presented = calls.render_ok
    /\ pc = "idle" =>
          /\ calls.acquired = calls.render_ok
          /\ calls.passes_submitted = calls.render_ok
          /\ calls.render = calls.render_ok + calls.render_err
    /\ calls.acquired - calls.render_ok \in {0, 1}
    /\ calls.passes_submitted - calls.render_ok \in {0, 1}
    /\ pc = "submitted" =>
          /\ calls.acquired = calls.render_ok + 1
          /\ calls.passes_submitted = calls.render_ok + 1

\* one frame has succeeded and one has timed out
C6_Witness ==
    /\ pc = "idle"
    /\ calls.render_ok = 1
    /\ calls.render_err = 1
    /\ presented = 1

\* C7: after two resize calls in a row with the same size, the descriptor
\* and the chain's dimensions are what they were after the first call, the
\* only live chain is the new one, and it is not the first call's chain.
C7_ResizeTwiceSame ==
    (/\ pc = "idle"
     /\ last_op = "resize"
     /\ entry.last_op = "resize"
     /\ entry.window_size = window.size) =>
        /\ sc_desc = entry.sc_desc
        /\ swap_chain.desc = entry.swap_chain.desc
        /\ swap_chain.id # entry.swap_chain.id
        /\ live_chains = {swap_chain.id}

\* resize has run twice in a row with the same nonzero size
C7_Witness ==
    /\ pc = "idle"
    /\ last_op = "resize"
    /\ entry.last_op = "resize"
    /\ entry.window_size = window.size
    /\ NonZero(window.size)
    /\ calls.resize = 2

\* C8: whatever stream fits, once the pass is recorded the render encoder
\* holds one clearing pass and one draw of vertices 0..6, instances 0..1,
\* and the frame that executes them runs exactly one clear and one draw.
C8_OneClearOneFixedDraw ==
    /\ pc \in {"drop_pass", "finish", "submit", "submitted"} =>
          /\ CountOp(encoder.cmds, "begin_render_pass") = 1
          /\ CountOp(encoder.cmds, "draw") = 1
          /\ encoder.cmds[1] =
                 Cmd("begin_render_pass", <<current_texture_view.chain, 0, 0, 1, 1>>)
          /\ encoder.cmds[4] = Cmd("draw", <<0, 6, 0, 1>>)
          /\ CountOp(stage_upload_encoder.cmds, "draw") = 0
    /\ pc = "submitted" =>
          /\ draw_observed.draws = 1
          /\ draw_observed.clears = 1

\* a frame with no vertex record at all has been submitted
C8_Witness ==
    /\ pc = "submitted"
    /\ verticies = <<>>
    /\ draw_observed.draws = 1

\* C9: without an adapter new ends in the no-adapter error having created
\* no device, chain, pipeline or vertex buffer; with a malformed shader it
\* never returns a RenderState; a failed new holds nothing; and a returned
\* RenderState has every field initialized.
C9_NewAllOrNothing ==
    /\ (~window.adapter_available /\ pc # "new") =>
          /\ pc = "init_failed"
          /\ init_error = "No adapter available"
          /\ created.device = 0
          /\ created.swap_chain = 0
          /\ created.pipeline = 0
          /\ created.vertex_buffer = 0
    /\ ~window.shaders_ok => ~Constructed
    /\ pc = "init_failed" =>
          /\ init_error # ""
          /\ ~surface /\ ~adapter /\ ~device
          /\ swap_chain = NoChain
          /\ render_pipeline = NoPipeline
          /\ vertex_buffer = NoBuffer
          /\ live_chains = {}
    /\ Constructed =>
          /\ surface /\ adapter /\ device
          /\ swap_chain.id # 0
          /\ render_pipeline.id # 0
          /\ Len(vertex_buffer) = Capacity
          /\ init_error = ""

\* new has failed for want of an adapter
C9_Witness ==
    /\ pc = "init_failed"
    /\ init_error = "No adapter available"
    /\ ~window.adapter_available

\* C10: between operations the descriptor's width and height are the size
\* the window supplied last, and the live chain was created from the
\* descriptor as it is now; an acquired image comes from that chain.
C10_DescriptorIsCurrent ==
    /\ pc = "idle" =>
          /\ sc_desc.width = window.size.width
          /\ sc_desc.height = window.size.height
          /\ swap_chain.desc = sc_desc
          /\ live_chains = {swap_chain.id}
    /\ pc \in {"record_pass", "drop_pass", "finish", "submit", "submitted"} =>
          /\ current_texture_view.chain = swap_chain.id
          /\ swap_chain.desc = sc_desc
          /\ current_texture_view.width = sc_desc.width
          /\ current_texture_view.height = sc_desc.height

\* a resize to a different size has completed
C10_Witness ==
    /\ pc = "idle"
    /\ last_op = "resize"
    /\ entry.window_size # window.size
    /\ sc_desc.width = window.size.width
    /\ sc_desc.height = window.size.height

\* the positions of a render call between its first and its last step
RenderPCs ==
    {"upload", "acquire", "record_pass", "drop_pass", "finish", "submit",
     "submitted"}

\* C11: at most one render call is under way; the queue holds, in call
\* order, the pair (upload_i, render_i) of every call i that got as far as
\* its submission, and nothing of a call that failed.
C11_SubmissionsInCallOrder ==
    /\ pc \in RenderPCs => calls.render = calls.render_ok + calls.render_err + 1
    /\ pc = "idle" => calls.render = calls.render_ok + calls.render_err
    /\ Len(queue) = 2 * (calls.render_ok + (IF pc = "submitted" THEN 1 ELSE 0))
    /\ \A k \in 1 .. Len(queue) \div 2 :
          /\ queue[2 * k - 1].kind = "upload"
          /\ queue[2 * k].kind = "render"
          /\ queue[2 * k - 1].frame = queue[2 * k].frame
          /\ queue[2 * k].frame \in 1 .. calls.render
          /\ k > 1 => queue[2 * k - 2].frame < queue[2 * k - 1].frame
    /\ last_op = "render_err" =>
          \A i \in DOMAIN queue : queue[i].frame # calls.render

\* two render calls have succeeded one after the other
C11_Witness ==
    /\ pc = "idle"
    /\ calls.render_ok = 2
    /\ Len(queue) = 4
    /\ queue[1].frame = 1
    /\ queue[3].frame = 2

\* C12: a resize, under way or completed, has changed nothing but the
\* descriptor's width and height and the swap chain; the pipeline is the
\* one new created, and its target format is the swap chain's format.
C12_ResizeTouchesOnlySizeAndChain ==
    /\ (pc = "resize_create" \/ (pc = "idle" /\ last_op = "resize")) =>
          /\ sc_desc.format = entry.sc_desc.format
          /\ sc_desc.usage = entry.sc_desc.usage
          /\ sc_desc.present_mode = entry.sc_desc.present_mode
          /\ render_pipeline = entry.render_pipeline
          /\ vertex_buffer = entry.vertex_buffer
          /\ surface = entry.surface
          /\ adapter = entry.adapter
          /\ device = entry.device
          /\ queue = entry.queue
          /\ presented = entry.presented
    /\ Constructed =>
          /\ created.pipeline = 1
          /\ render_pipeline.id = 1
          /\ created.vertex_buffer = 1
          /\ render_pipeline.format = sc_desc.format
          /\ render_pipeline.format = swap_chain.desc.format

\* a second resize, to another size, has completed after a frame was drawn
C12_Witness ==
    /\ pc = "idle"
    /\ last_op = "resize"
    /\ calls.resize = 2
    /\ calls.render_ok >= 1
    /\ entry.window_size # window.size
    /\ swap_chain # entry.swap_chain

\* no local of render is left
FrameLocalsReleased ==
    /\ staging_buffer = NoBuffer
    /\ stage_upload_encoder = NoEncoder
    /\ encoder = NoEncoder
    /\ current_texture_view = NoView
    /\ render_pass = "none"

\* C13 as stated: outside a render call none of its locals is left; every
\* call has created one staging buffer; and every staging buffer that has
\* been discarded was the source of one recorded copy.
C13_FrameResourcesReleased ==
    /\ pc \notin RenderPCs => FrameLocalsReleased
    /\ created.staging_buffer = calls.render
    /\ pc \notin RenderPCs \cup {"upload"} =>
          calls.copies_recorded = created.staging_buffer
    /\ pc \in RenderPCs \ {"upload"} =>
          /\ CountOp(stage_upload_encoder.cmds, "copy_buffer_to_buffer") = 1
          /\ CountOp(encoder.cmds, "copy_buffer_to_buffer") = 0

\* C14: new creates one swap chain and every resize that returns creates
\* one more, whatever its argument; inside resize the descriptor already has
\* the new size while the chain is still the one the call found.
C14_EveryResizeRecreates ==
    /\ Constructed /\ pc \in {"idle"} \cup RenderPCs =>
          /\ created.swap_chain = calls.resize + 1
          /\ swap_chain.id = created.swap_chain
    /\ pc = "resize_create" =>
          /\ created.swap_chain = calls.resize
          /\ sc_desc.width = window.size.width
          /\ sc_desc.height = window.size.height
          /\ swap_chain = entry.swap_chain
    /\ last_op = "resize" =>
          /\ swap_chain.id = entry.swap_chain.id + 1
          /\ swap_chain.desc = sc_desc

\* two resizes after new, the second to the size the window already had:
\* three chains
C14_Witness ==
    /\ pc = "idle"
    /\ last_op = "resize"
    /\ calls.resize = 2
    /\ entry.window_size = window.size
    /\ entry.swap_chain.desc = swap_chain.desc
    /\ created.swap_chain = 3

\* the command buffers of the call under way that the queue holds
InQueueOfThisFrame == {i \in DOMAIN queue : queue[i].frame = calls.render}

\* C15: an encoder is finished only after the render pass has ended, and
\* the call's buffers reach the queue only after both encoders are
\* finished, both at once; while the pass is open both encoders are still
\* recording and nothing of the call is in the queue.
C15_PassEndsBeforeFinish ==
    /\ stage_upload_encoder.state = "finished" \/ encoder.state = "finished" =>
          /\ render_pass = "ended"
          /\ encoder.cmds # <<>>
          /\ encoder.cmds[Len(encoder.cmds)].op = "end_render_pass"
    /\ render_pass = "open" =>
          /\ stage_upload_encoder.state = "recording"
          /\ encoder.state = "recording"
    /\ pc \in RenderPCs =>
          /\ InQueueOfThisFrame # {} =>
                /\ stage_upload_encoder.state = "finished"
                /\ encoder.state = "finished"
                /\ render_pass = "ended"
                /\ pc = "submitted"
          /\ Cardinality(InQueueOfThisFrame) = IF pc = "submitted" THEN 2 ELSE 0
    /\ pc = "submit" =>
          /\ stage_upload_encoder.state = "finished"
          /\ encoder.state = "finished"

\* both encoders finished, the pass ended, the submission not yet made
C15_Witness ==
    /\ pc = "submit"
    /\ render_pass = "ended"
    /\ stage_upload_encoder.state = "finished"
    /\ encoder.state = "finished"
    /\ CountOp(encoder.cmds, "begin_render_pass") = 1
    /\ InQueueOfThisFrame = {}

\* a step that takes render from idle or from inside the call to its exit
RenderExit(from_pc, outcome) ==
    /\ pc = from_pc
    /\ pc' = "idle"
    /\ last_op' = outcome

\* C16: a render call whose stream fits does not panic in staging, and once
\* past staging it leaves only by Ok after the submission or by the error of
\* the acquisition timeout, and it does leave.
C16_RenderFinishesOneOfTwoWays ==
    /\ [][/\ pc = "idle" /\ pc' = "panicked" => ~StageFits(cast_slice(verticies'))
          /\ pc = "idle" /\ StageFits(cast_slice(verticies')) /\ calls'.render # calls.render
                => pc' = "upload"
          /\ pc \in RenderPCs /\ pc' \notin RenderPCs =>
                \/ RenderExit("submitted", "render_ok") /\ calls'.render_ok = calls.render_ok + 1
                \/ RenderExit("acquire", "render_err") /\ calls'.render_err = calls.render_err + 1
          /\ ~(RenderExit("submitted", "render_ok") /\ RenderExit("acquire", "render_err"))]_vars
    /\ (pc \in RenderPCs) ~> (pc = "idle" /\ last_op \in {"render_ok", "render_err"})

\* two calls have finished, one in each of the two ways
C16_Witness ==
    /\ pc = "idle"
    /\ calls.render = 2
    /\ calls.render_ok = 1
    /\ calls.render_err = 1
    /\ last_op \in {"render_ok", "render_err"}

\* C17: when render returns Ok, and already when its submission is made,
\* the whole persistent vertex buffer is the call's staging buffer: the
\* stream's bytes, then the bytes the fresh mapping held past them.  The
\* value is fixed by the stream and the fresh mapping alone, whatever the
\* buffer held before.
C17_VertexBufferIsStagingBuffer ==
    [][/\ pc = "submit" /\ pc' = "submitted" =>
             /\ vertex_buffer' = staging_buffer
             /\ vertex_buffer' = Content \o staging_init
       /\ RenderExit("submitted", "render_ok") =>
             /\ vertex_buffer' = staging_buffer
             /\ vertex_buffer' = Content \o staging_init
             /\ Len(vertex_buffer') = Capacity
             /\ \A i \in 1 .. Capacity :
                   vertex_buffer'[i] = IF i <= Len(Content) THEN Content[i]
                                       ELSE staging_init[i - Len(Content)]]_vars

\* a second successful call has replaced a buffer that earlier frames had
\* filled, with a stream shorter than the buffer
C17_Witness ==
    /\ pc = "idle"
    /\ last_op = "render_ok"
    /\ calls.render_ok = 2
    /\ entry.vertex_buffer # Zeroes(Capacity)
    /\ entry.vertex_buffer # vertex_buffer
    /\ vb_frame = 2

====
